---- MODULE Spec2Model ----
(***************************************************************************)
(* Model of onmt/transforms/custom_transforms.py: the Normalize and       *)
(* PreTokenize transforms.                                                 *)
(*                                                                         *)
(* A character is a one-character string; a code point outside printable   *)
(* ASCII is written "U+XXXX".  A Python str is a sequence of characters, a *)
(* sentence (List[str]) is a sequence of such sequences.                   *)
(***************************************************************************)
EXTENDS Integers, Sequences, FiniteSets, TLC

\* ------------------------------------------------------------------ bounds
MaxLen == 4        \* longest joined sentence fed to PreTokenize
MaxNormLen == 3    \* longest joined sentence fed to Normalize
MaxPasses == 2     \* how many times a transform is re-applied to its output

\* ------------------------------------------------- string module constants
\* string.punctuation (the backslash and the grave accent by code point)
punctuation ==
    {"!", "\"", "#", "$", "%", "&", "'", "(", ")", "*", "+", ",", "-", ".",
     "/", ":", ";", "<", "=", ">", "?", "@", "[", "U+005C", "]", "^", "_", "U+0060",
     "{", "|", "}", "~"}

\* string.whitespace: space, TAB, LF, CR, VT, FF
whitespace == {" ", "U+0009", "U+000A", "U+000D", "U+000B", "U+000C"}

\* The characters str.split() and str.strip() treat as whitespace
\* (str.isspace): string.whitespace and the other Unicode separators.
UnicodeSpace ==
    whitespace \cup
    {"U+001C", "U+001D", "U+001E", "U+001F", "U+0085", "U+00A0", "U+1680",
     "U+2000", "U+2001", "U+2002", "U+2003", "U+2004", "U+2005", "U+2006",
     "U+2007", "U+2008", "U+2009", "U+200A", "U+2028", "U+2029", "U+202F",
     "U+205F", "U+3000"}

\* fillvalue of zip_longest in _pretok_gen
Sentinel == "U+0000"

\* ------------------------------------------------------- Python str helpers
RECURSIVE JoinFrom(_, _)
JoinFrom(toks, k) ==
    IF k > Len(toks) THEN <<>>
    ELSE IF k = Len(toks) THEN toks[k]
    ELSE toks[k] \o <<" ">> \o JoinFrom(toks, k + 1)

\* ' '.join(sentence)
Join(toks) == JoinFrom(toks, 1)

RECURSIVE LStrip(_)
LStrip(s) ==
    IF s # <<>> /\ Head(s) \in UnicodeSpace THEN LStrip(Tail(s)) ELSE s

RECURSIVE RStrip(_)
RStrip(s) ==
    IF s # <<>> /\ s[Len(s)] \in UnicodeSpace
    THEN RStrip(SubSeq(s, 1, Len(s) - 1)) ELSE s

\* str.strip()
Strip(s) == RStrip(LStrip(s))

RECURSIVE SplitFrom(_, _, _)
SplitFrom(s, k, cur) ==
    IF k > Len(s) THEN (IF cur = <<>> THEN <<>> ELSE <<cur>>)
    ELSE IF s[k] \in UnicodeSpace
         THEN (IF cur = <<>> THEN <<>> ELSE <<cur>>) \o SplitFrom(s, k + 1, <<>>)
         ELSE SplitFrom(s, k + 1, Append(cur, s[k]))

\* str.split() with no separator
Split(s) == SplitFrom(s, 1, <<>>)

\* ---------------------------------------------------------------- state
VARIABLES
    opts,       \* self.opts: the parsed command-line options
    src,        \* example['src']: the sentence, a list of tokens
    pc,         \* "idle", or the function that is running
    sentence,   \* the local str `sentence` of the running function
    i,          \* position of the for loop of _pretok_gen in `sentence`
    prev_char,  \* the local prev_char of _pretok_gen
    out,        \* the characters yielded by _pretok_gen so far
    at,         \* history: at[k] is the index in `out` of input character k
    args,       \* history: the arguments of the calls so far, in order
    rets        \* history: the values returned so far, in order

vars == <<opts, src, pc, sentence, i, prev_char, out, at, args, rets>>

\* --------------------------------------------------- PreTokenize._parse_opts
inter_word_punctuation == punctuation \ opts.intra_word_punctuation

\* mutant: the sticky option is ignored
non_sticky_punctuation_all == punctuation

non_sticky_punctuation == punctuation \ opts.sticky_punctuation

whitespace_or_punctuation == whitespace \cup punctuation

\* --------------------------------------------------- PreTokenize._pretok_gen
\* the element of zip_longest(sentence, sentence[1:], fillvalue='\0')
\* paired with sentence[k]
NextChar(s, k) == IF k < Len(s) THEN s[k + 1] ELSE Sentinel

\* mutant: the leading boundary without the prev_char != char guard
LeadingBoundary_unguarded(prev, char, next_char) ==
    \/ char \in inter_word_punctuation
    \/ (char \in non_sticky_punctuation /\ next_char \in whitespace_or_punctuation)
    \/ (char \in punctuation /\ char = next_char)
    \/ next_char = Sentinel

\* the condition of the first `yield ' '`
LeadingBoundary(prev, char, next_char) ==
    /\ prev # char
    /\ \/ char \in inter_word_punctuation
       \/ (char \in non_sticky_punctuation /\ next_char \in whitespace_or_punctuation)
       \/ (char \in punctuation /\ char = next_char)
       \/ next_char = Sentinel

\* mutant: the trailing boundary without the inter-word disjunct
TrailingBoundary_context_only(prev, char, next_char) ==
    /\ char # next_char
    /\ char \in non_sticky_punctuation /\ prev \in whitespace_or_punctuation

\* the condition of the second `yield ' '`
TrailingBoundary(prev, char, next_char) ==
    /\ char # next_char
    /\ \/ char \in inter_word_punctuation
       \/ (char \in non_sticky_punctuation /\ prev \in whitespace_or_punctuation)

\* mutant: the loop yields the lookahead character instead of the current one
Yielded_lookahead(prev, char, next_char) ==
    (IF LeadingBoundary(prev, char, next_char) THEN <<" ">> ELSE <<>>)
    \o <<next_char>>
    \o (IF TrailingBoundary(prev, char, next_char) THEN <<" ">> ELSE <<>>)

\* what one iteration of the loop yields
Yielded(prev, char, next_char) ==
    (IF LeadingBoundary(prev, char, next_char) THEN <<" ">> ELSE <<>>)
    \o <<char>>
    \o (IF TrailingBoundary(prev, char, next_char) THEN <<" ">> ELSE <<>>)

\* _pre_tokenize is called: sentence = ' '.join(sentence), the generator starts
Call_pre_tokenize ==
    /\ pc = "idle"
    /\ Len(args) < MaxPasses
    /\ pc' = "pretok_gen"
    /\ args' = Append(args, src)
    /\ sentence' = Join(src)
    /\ i' = 1
    /\ prev_char' = " "
    /\ out' = <<>>
    /\ at' = <<>>
    /\ UNCHANGED <<opts, src, rets>>

\* mutant: the loop jumps over the second character of a repeated pair
PretokStep_skip_repeat ==
    /\ pc = "pretok_gen"
    /\ i <= Len(sentence)
    /\ LET char == sentence[i]
           next_char == NextChar(sentence, i)
           lead == LeadingBoundary(prev_char, char, next_char)
       IN  /\ out' = out \o Yielded(prev_char, char, next_char)
           /\ at' = Append(at, Len(out) + (IF lead THEN 2 ELSE 1))
           /\ prev_char' = char
           /\ i' = IF char = next_char THEN i + 2 ELSE i + 1
    /\ UNCHANGED <<opts, src, pc, sentence, args, rets>>

\* one iteration of the for loop of _pretok_gen, joined into the result
PretokStep ==
    /\ pc = "pretok_gen"
    /\ i <= Len(sentence)
    /\ LET char == sentence[i]
           next_char == NextChar(sentence, i)
           lead == LeadingBoundary(prev_char, char, next_char)
       IN  /\ out' = out \o Yielded(prev_char, char, next_char)
           /\ at' = Append(at, Len(out) + (IF lead THEN 2 ELSE 1))
           /\ prev_char' = char
    /\ i' = i + 1
    /\ UNCHANGED <<opts, src, pc, sentence, args, rets>>

\* the generator is exhausted: return sentence.strip().split()
Return_pre_tokenize ==
    /\ pc = "pretok_gen"
    /\ i > Len(sentence)
    /\ src' = Split(Strip(out))
    /\ rets' = Append(rets, src')
    /\ sentence' = out
    /\ pc' = "idle"
    /\ UNCHANGED <<opts, i, prev_char, out, at, args>>

\* ------------------------------------------------------ Normalize._normalize
\* the code points of the chain of str.replace calls, in the order of the chain
QuoteGlyphs ==
    <<"U+00AB", "U+2039", "U+00BB", "U+203A", "U+201E", "U+201C", "U+201F",
      "U+201D", "\"", "U+275D", "U+275E", "U+276E", "U+276F", "U+2E42",
      "U+301D", "U+301E", "U+301F", "U+FF02", "U+201A", "U+2018", "U+201B",
      "U+275B", "U+275C", "U+275F">>

\* str.replace(old, new) for one-character old and new
Replace(s, old, new) == [k \in 1..Len(s) |-> IF s[k] = old THEN new ELSE s[k]]

RECURSIVE ReplaceChain(_, _, _)
ReplaceChain(s, glyphs, k) ==
    IF k > Len(glyphs) THEN s
    ELSE ReplaceChain(Replace(s, glyphs[k], "\""), glyphs, k + 1)

\* mutant: the chain of replace calls without its first link
NormalizeQuotes_from_second(s) == ReplaceChain(s, QuoteGlyphs, 2)

\* the statement under "# Normalize quotes"
NormalizeQuotes(s) == ReplaceChain(s, QuoteGlyphs, 1)

\* mutant: U+2019 is replaced by the left single quotation mark
NormalizeContractions_left_quote(s) == Replace(s, "U+2019", "U+2018")

\* the statement under "# Normalize contractions"
NormalizeContractions(s) == Replace(s, "U+2019", "'")

\* unicodedata: canonical decomposition mapping
CanonicalDecomposition(c) ==
    CASE c = "U+00E9" -> <<"e", "U+0301">>
      [] OTHER -> <<c>>

\* unicodedata: compatibility decomposition mapping, fully decomposed
CompatibilityDecomposition(c) ==
    CASE c = "U+FF02" -> <<"\"">>
      [] c = "U+00B4" -> <<" ", "U+0301">>
      [] c = "U+00A0" -> <<" ">>
      [] OTHER -> CanonicalDecomposition(c)

\* unicodedata: characters of non-zero canonical combining class
CombiningMarks == {"U+0301"}

\* unicodedata: primary composites
Composable(starter, mark) == starter = "e" /\ mark = "U+0301"

Composite(starter, mark) == "U+00E9"

RECURSIVE Decompose(_, _)
Decompose(s, compat) ==
    IF s = <<>> THEN <<>>
    ELSE (IF compat THEN CompatibilityDecomposition(Head(s))
                    ELSE CanonicalDecomposition(Head(s)))
         \o Decompose(Tail(s), compat)

\* canonical composition: res is the text composed so far, st the index in
\* res of the last starter (0: none). A mark composes with the last starter
\* unless a mark of its own class is left between them.
RECURSIVE ComposeFrom(_, _, _, _)
ComposeFrom(s, k, res, st) ==
    IF k > Len(s) THEN res
    ELSE LET c == s[k] IN
         IF c \in CombiningMarks
         THEN IF st > 0 /\ Len(res) = st /\ Composable(res[st], c)
              THEN ComposeFrom(s, k + 1, [res EXCEPT ![st] = Composite(res[st], c)], st)
              ELSE ComposeFrom(s, k + 1, Append(res, c), st)
         ELSE ComposeFrom(s, k + 1, Append(res, c), Len(res) + 1)

\* unicodedata.normalize(form, s)
UnicodeNormalize(form, s) ==
    LET d == Decompose(s, form \in {"NFKC", "NFKD"})
    IN  IF form \in {"NFC", "NFKC"} THEN ComposeFrom(d, 1, <<>>, 0) ELSE d

\* _normalize is called: sentence = ' '.join(sentence)
Call_normalize ==
    /\ pc = "idle"
    /\ Len(args) < MaxPasses
    /\ pc' = "normalize_quotes"
    /\ args' = Append(args, src)
    /\ sentence' = Join(src)
    /\ UNCHANGED <<opts, src, i, prev_char, out, at, rets>>

Step_normalize_quotes ==
    /\ pc = "normalize_quotes"
    /\ sentence' = IF ~opts.no_normalize_quotes
                   THEN NormalizeQuotes(sentence) ELSE sentence
    /\ pc' = "normalize_contractions"
    /\ UNCHANGED <<opts, src, i, prev_char, out, at, args, rets>>

Step_normalize_contractions ==
    /\ pc = "normalize_contractions"
    /\ sentence' = IF ~opts.no_normalize_contractions
                   THEN NormalizeContractions(sentence) ELSE sentence
    /\ pc' = "normalize_unicode"
    /\ UNCHANGED <<opts, src, i, prev_char, out, at, args, rets>>

Step_normalize_unicode ==
    /\ pc = "normalize_unicode"
    /\ sentence' = IF ~opts.no_unicode_normalization
                   THEN UnicodeNormalize(opts.unicode_normalization_form, sentence)
                   ELSE sentence
    /\ pc' = "normalize_return"
    /\ UNCHANGED <<opts, src, i, prev_char, out, at, args, rets>>

\* return sentence.strip().split()
Return_normalize ==
    /\ pc = "normalize_return"
    /\ src' = Split(Strip(sentence))
    /\ rets' = Append(rets, src')
    /\ pc' = "idle"
    /\ UNCHANGED <<opts, sentence, i, prev_char, out, at, args>>

\* ------------------------------------------------------------ inputs
\* option values of PreTokenize.add_options
DefaultIntra == {".", "'", ",", "-"}

DefaultSticky == {"."}

\* the default, with the period or the hyphen taken out
IntraChoices == {DefaultIntra \ x : x \in SUBSET {".", "-"}}

StickyChoices == SUBSET {".", "-"}

TokAlphabet == {"a", "b", ".", "-"}

StringsOver(alphabet, n) == UNION {[1..k -> alphabet] : k \in 0..n}

\* a sentence is a list of non-empty tokens without whitespace: its join has
\* no leading, trailing or doubled space
IsJoined(s) ==
    /\ s # <<>> => (s[1] # " " /\ s[Len(s)] # " ")
    /\ \A k \in 1..(Len(s) - 1) : ~(s[k] = " " /\ s[k + 1] = " ")

SentencesOver(alphabet, n) ==
    {Split(s) : s \in {t \in StringsOver(alphabet \cup {" "}, n) : IsJoined(t)}}

DontStop == <<<<"d", "o", "n", "'", "t">>, <<"s", "t", "o", "p">>>>

Parenthetical ==
    <<<<"(", "p", "a", "r", "e", "n", "t", "h", "e", "t", "i", "c", "a", "l", ")">>,
      <<"w", "o", "r", "d">>>>

Wait == <<<<"w", "a", "i", "t", ".", ".", ".">>>>

EgExample == <<<<"e", ".", "g", ".">>, <<"e", "x", "a", "m", "p", "l", "e">>>>

TokExamples == {DontStop, Parenthetical, Wait, EgExample}

TokOpts ==
    {[intra_word_punctuation |-> intra, sticky_punctuation |-> sticky,
       no_normalize_quotes |-> FALSE, no_normalize_contractions |-> FALSE,
       no_unicode_normalization |-> FALSE, unicode_normalization_form |-> "NFKC"] :
        intra \in IntraChoices, sticky \in StickyChoices}

InitTok ==
    /\ opts \in TokOpts
    /\ src \in SentencesOver(TokAlphabet, MaxLen) \cup TokExamples
    /\ pc = "idle"
    /\ sentence = <<>>
    /\ i = 1
    /\ prev_char = " "
    /\ out = <<>>
    /\ at = <<>>
    /\ args = <<>>
    /\ rets = <<>>

NextTok == Call_pre_tokenize \/ PretokStep \/ Return_pre_tokenize

SpecTok == InitTok /\ [][NextTok]_vars

\* option values of Normalize.add_options
NormOpts ==
    {[intra_word_punctuation |-> DefaultIntra, sticky_punctuation |-> DefaultSticky,
       no_normalize_quotes |-> nq, no_normalize_contractions |-> nc,
       no_unicode_normalization |-> nu, unicode_normalization_form |-> form] :
        nq \in BOOLEAN, nc \in BOOLEAN, nu \in BOOLEAN,
        form \in {"NFC", "NFKC", "NFD", "NFKD"}}

NormAlphabet ==
    {"e", "U+0301", "U+00E9", "U+00AB", "U+201C", "U+2019", "U+FF02", "U+00B4"}

Guillemets == <<<<"U+00AB", "t", "e", "x", "t", "U+00BB">>>>

LowHigh == <<<<"U+201E", "t", "e", "x", "t", "U+201C">>>>

Curly == <<<<"U+201C", "t", "e", "x", "t", "U+201D">>>>

NormExamples == {Guillemets, LowHigh, Curly}

InitNorm ==
    /\ opts \in NormOpts
    /\ src \in SentencesOver(NormAlphabet, MaxNormLen) \cup NormExamples
    /\ pc = "idle"
    /\ sentence = <<>>
    /\ i = 1
    /\ prev_char = " "
    /\ out = <<>>
    /\ at = <<>>
    /\ args = <<>>
    /\ rets = <<>>

NextNorm ==
    \/ Call_normalize
    \/ Step_normalize_quotes
    \/ Step_normalize_contractions
    \/ Step_normalize_unicode
    \/ Return_normalize

SpecNorm == InitNorm /\ [][NextNorm]_vars

\* the pipeline: either transform, applied to any sentence
Init == InitTok \/ InitNorm

Next == NextTok \/ NextNorm

Spec == Init /\ [][Next]_vars

\* ------------------------------------------------------- vocabulary of the claims
\* the string the current or last call scans
Input == IF args = <<>> THEN <<>> ELSE Join(args[Len(args)])

\* a call of the transform has returned and none is running
Returned == pc = "idle" /\ rets # <<>>

DefaultConfig ==
    /\ opts.intra_word_punctuation = DefaultIntra
    /\ opts.sticky_punctuation = DefaultSticky

WordChar(c) == c \notin punctuation /\ c \notin UnicodeSpace

\* the scanned input characters j < k are emitted into the same output token
SameToken(j, k) == \A m \in at[j]..at[k] : out[m] \notin UnicodeSpace

\* input character k is the first character of its output token
StartsToken(k) == at[k] = 1 \/ out[at[k] - 1] \in UnicodeSpace

\* the input positions the scan of _pretok_gen has visited
Scanned == IF pc = "pretok_gen" \/ (pc = "idle" /\ at # <<>>) THEN 1..Len(at) ELSE {}

\* the tokens of a sentence, concatenated
RECURSIVE Flatten(_)
Flatten(toks) ==
    IF toks = <<>> THEN <<>> ELSE Head(toks) \o Flatten(Tail(toks))

\* the characters that occur in the tokens of a sentence
Chars(toks) == UNION {{toks[t][k] : k \in 1..Len(toks[t])} : t \in 1..Len(toks)}

\* -------------------------------------------------------------------- C1
\* C1: under the default configuration, _pre_tokenize applied to its own
\* output returns that output unchanged.
C1_RoundTripStable ==
    (DefaultConfig /\ Len(rets) >= 2) => rets[2] = rets[1]

\* -------------------------------------------------------------------- C2
\* C2: two adjacent input characters that are both neither punctuation nor
\* whitespace are emitted into the same output token, the last character of
\* the sentence and the one before it included.
C2_WordCharsNeverSplit ==
    \A k \in Scanned :
        (k > 1 /\ WordChar(Input[k - 1]) /\ WordChar(Input[k])) => SameToken(k - 1, k)

\* -------------------------------------------------------------------- C3
\* C3: under the default configuration an intra-word punctuation character
\* with a word character on both sides stays in one token with both of them;
\* ["don't", "stop"] is returned unchanged and ["(parenthetical)", "word"]
\* is returned as ["(", "parenthetical", ")", "word"].
C3_IntraWordPreserved ==
    DefaultConfig =>
        /\ \A k \in Scanned :
              (/\ k > 2
               /\ Input[k - 1] \in opts.intra_word_punctuation
               /\ WordChar(Input[k - 2]) /\ WordChar(Input[k])) => SameToken(k - 2, k)
        /\ (Returned /\ args[Len(rets)] = DontStop) => rets[Len(rets)] = DontStop
        /\ (Returned /\ args[Len(rets)] = Parenthetical) =>
              rets[Len(rets)] =
                  <<<<"(">>, <<"p", "a", "r", "e", "n", "t", "h", "e", "t", "i", "c", "a", "l">>,
                    <<")">>, <<"w", "o", "r", "d">>>>

\* -------------------------------------------------------------------- C4
\* C4: no boundary is inserted between two adjacent identical punctuation
\* characters, a run of two or more of them starts its output token, and
\* ["wait..."] is returned as ["wait", "..."].
C4_RepeatedRunGlued ==
    /\ \A k \in Scanned :
          (k > 1 /\ Input[k] \in punctuation /\ Input[k - 1] = Input[k]) =>
              at[k] = at[k - 1] + 1
    /\ \A k \in Scanned :
          (/\ Input[k] \in punctuation
           /\ k < Len(Input) /\ Input[k + 1] = Input[k]
           /\ (k > 1 => Input[k - 1] # Input[k])) => StartsToken(k)
    /\ (Returned /\ DefaultConfig /\ args[Len(rets)] = Wait) =>
          rets[Len(rets)] = <<<<"w", "a", "i", "t">>, <<".", ".", ".">>>>

\* a run of three periods after a word has been scanned
C4_Witness ==
    /\ Returned /\ DefaultConfig
    /\ args[Len(rets)] = Wait
    /\ Len(at) = 7 /\ at[7] = at[5] + 2

\* -------------------------------------------------------------------- C5
\* C5: a punctuation character that is sticky and intra-word, preceded by a
\* word character and followed by a space, stays in the token of the word
\* character; ["e.g.", "example"] keeps "e.g." as one token when the period is
\* sticky and returns "e.g" and "." as separate tokens when the sticky set is
\* empty.
C5_StickyExemption ==
    /\ \A k \in Scanned :
          (/\ k > 1 /\ k < Len(Input)
           /\ Input[k] \in punctuation
           /\ Input[k] \in opts.sticky_punctuation
           /\ Input[k] \in opts.intra_word_punctuation
           /\ WordChar(Input[k - 1])
           /\ Input[k + 1] = " ") => SameToken(k - 1, k)
    /\ (Returned /\ args[Len(rets)] = EgExample /\ opts.intra_word_punctuation = DefaultIntra) =>
          /\ opts.sticky_punctuation = DefaultSticky =>
                rets[Len(rets)][1] = <<"e", ".", "g", ".">>
          /\ opts.sticky_punctuation = {} =>
                /\ rets[Len(rets)][1] = <<"e", ".", "g">>
                /\ rets[Len(rets)][2] = <<".">>

\* "e.g. example" has been tokenized with the period sticky
C5_Witness ==
    /\ Returned /\ DefaultConfig
    /\ args[1] = EgExample
    /\ rets[1][1] = <<"e", ".", "g", ".">>

\* -------------------------------------------------------------------- C6
\* C6: every returned token that contains an inter-word punctuation
\* character consists of repetitions of that one character.
C6_InterWordOwnToken ==
    rets # <<>> =>
        \A t \in 1..Len(rets[Len(rets)]) :
            LET tok == rets[Len(rets)][t] IN
            \A j \in 1..Len(tok) :
                tok[j] \in inter_word_punctuation =>
                    \A m \in 1..Len(tok) : tok[m] = tok[j]

\* an inter-word character between two word characters has been split off
C6_Witness ==
    /\ Returned
    /\ \E k \in 2..(Len(Input) - 1) :
          /\ Input[k] \in inter_word_punctuation
          /\ WordChar(Input[k - 1]) /\ WordChar(Input[k + 1])
          /\ <<Input[k]>> \in {rets[Len(rets)][t] : t \in 1..Len(rets[Len(rets)])}

\* ------------------------------------------------------------------- C10
\* C10: the returned tokens, concatenated, are the argument's tokens,
\* concatenated; every returned token is non-empty and holds neither
\* whitespace nor the end-of-string sentinel.
C10_ContentPreserved ==
    Returned =>
        LET ret == rets[Len(rets)] IN
        /\ Flatten(ret) = Flatten(args[Len(rets)])
        /\ \A t \in 1..Len(ret) : ret[t] # <<>>
        /\ Chars(ret) \cap (UnicodeSpace \cup {Sentinel}) = {}

\* a call that inserted a boundary has returned
C10_Witness ==
    /\ Returned
    /\ Len(rets[Len(rets)]) > Len(args[Len(rets)])

\* -------------------------------------------------------------------- C9
\* the scan and the call that runs it always finish: a Python for loop over
\* a finite iterator and the statements after it run to completion
FairSpecTok ==
    SpecTok /\ WF_vars(PretokStep) /\ WF_vars(Return_pre_tokenize)

\* C9: while _pretok_gen runs, the characters before position i, and only
\* they, have been visited, once each and in order; every step moves i
\* forward by exactly one over an unchanged string; the loop never passes
\* the end-of-string sentinel; and every call returns a token sequence.
C9_ScanTerminates ==
    /\ [](pc = "pretok_gen" =>
            /\ i \in 1..(Len(sentence) + 1)
            /\ Len(at) = i - 1
            /\ prev_char = (IF i = 1 THEN " " ELSE sentence[i - 1])
            /\ \A k \in 1..(Len(at) - 1) : at[k] < at[k + 1]
            /\ \A k \in 1..Len(at) : out[at[k]] = sentence[k])
    /\ [][(pc = "pretok_gen" /\ pc' = "pretok_gen") =>
            (i' = i + 1 /\ sentence' = sentence)]_vars
    /\ [][(pc = "pretok_gen" /\ pc' # "pretok_gen") =>
            (i = Len(sentence) + 1 /\ pc' = "idle" /\ Len(rets') = Len(args))]_vars
    /\ (pc = "pretok_gen" ~> Returned)

\* the sentence that is a single punctuation character has been tokenized
C9_Witness ==
    /\ Returned
    /\ args[1] = <<<<".">>>>
    /\ rets[1] = <<<<".">>>>

\* -------------------------------------------------------------------- C7
\* C7: whatever the toggles and the normalization form, _normalize applied
\* to its own output returns that output unchanged.
C7_NormalizeIdempotent ==
    Len(rets) >= 2 => rets[2] = rets[1]

\* a first call changed the sentence and a second call has returned
C7_Witness ==
    /\ pc = "idle"
    /\ Len(rets) = 2
    /\ rets[1] # args[1]
    /\ ~opts.no_normalize_quotes
    /\ ~opts.no_normalize_contractions
    /\ ~opts.no_unicode_normalization

\* -------------------------------------------------------------------- C8
QuoteGlyphSet == {QuoteGlyphs[k] : k \in 1..Len(QuoteGlyphs)}

QuotedText == <<<<"\"", "t", "e", "x", "t", "\"">>>>

\* C8: with quote normalization enabled the quote step turns each quote
\* glyph into '"' and leaves every other character, U+2019 included, in
\* place; the contraction step, when enabled, turns each U+2019 into the
\* apostrophe; the returned tokens hold no quote glyph but '"'; and the
\* word text in guillemets, in low-high quotes and in curly quotes is
\* returned as "text".
C8_QuotesCanonical ==
    (~opts.no_normalize_quotes /\ args # <<>>) =>
        /\ pc \in {"normalize_contractions", "normalize_unicode"} =>
              /\ Len(sentence) = Len(Input)
              /\ \A k \in 1..Len(Input) :
                    sentence[k] =
                        IF Input[k] \in QuoteGlyphSet THEN "\""
                        ELSE IF Input[k] = "U+2019" /\ pc = "normalize_unicode"
                                /\ ~opts.no_normalize_contractions THEN "'"
                        ELSE Input[k]
        /\ "U+2019" \notin QuoteGlyphSet
        /\ Returned =>
              /\ Chars(rets[Len(rets)]) \cap QuoteGlyphSet \subseteq {"\""}
              /\ args[Len(rets)] \in NormExamples => rets[Len(rets)] = QuotedText

\* text in guillemets has been normalized
C8_Witness ==
    /\ Returned
    /\ ~opts.no_normalize_quotes
    /\ args[1] = Guillemets
    /\ rets[1] = QuotedText

====
